---- MODULE Spec2Model ----
(***************************************************************************)
(* The interview room of sreeyatk/video-interview-bot (photo-capture       *)
(* variant), as a state machine.                                            *)
(*                                                                          *)
(* One InterviewRoom component instance is followed from its mount to its   *)
(* unmount.  React state is committed after every handler, so a handler    *)
(* is one atomic action; what is NOT atomic is everything that outlives a   *)
(* render: the three setTimeout callbacks, the continuation of an async     *)
(* function after an await, and the callbacks of an utterance or of a       *)
(* recognizer.  Those keep the values of the render that created them, and  *)
(* the model stores those values with them (field "seen" of a schedule,     *)
(* fields "questions", "responses" and "photos" of a finishing run).        *)
(*                                                                          *)
(* Strings are sequences of one-character strings; "" is << >>.             *)
(***************************************************************************)
EXTENDS Integers, Sequences, FiniteSets, TLC

\* ------------------------------------------------------------------ bounds
MaxQuestions == 2      \* questions returned by the question service
MaxAcquire   == 2      \* getUserMedia calls per session
MaxUtter     == 2      \* utterances queued in speechSynthesis at one time
MaxRecog     == 2      \* recognizers created per session
MaxFinal     == 1      \* final results one recognizer delivers
MaxRuns      == 2      \* finishInterview invocations per session
MaxChunks    == 2      \* chunks the recorder delivers before it is stopped

\* ------------------------------------------------------- program constants
MaxPhotos         == 3   \* capturedPhotos.length >= 3
TimersPerSchedule == 3   \* captureIntervals = [30000, 90000, 150000]

Words == {"a"}           \* transcripts the recognizer can report
Null  == 0               \* null / no object

VARIABLES
  step,                  \* Index: "interview" | "results" | "signedOut"
  mounted,               \* the InterviewRoom instance is mounted
  loadPending,           \* loadQuestions is awaiting functions.invoke
  isLoading, questions, currentQuestionIndex, responses,
  isSpeaking, isListening, currentAnswer, videoEnabled, micEnabled, isRecording, hasSpoken,
  capturedPhotos,
  isAnalyzing, analysis, \* ResultsScreen: the analysis request is out; its result, or NoAnalysis
  interviewData,         \* Index: category, questions, responses, videoUrl
  request, reply,        \* interview-ai: the request being served, and what serve() did with it
  recorder,              \* the video-recording variants: mediaRecorderRef and chunksRef
  videoRuns,             \* every invocation of finishInterview of a video-recording variant
  streamRef,             \* index into streams, or Null
  streams,               \* every MediaStream getUserMedia has returned
  mediaPending,          \* getUserMedia calls not answered yet
  nAcquire,              \* getUserMedia calls made so far
  schedules,             \* autoCaptureTimersRef: one entry per scheduleAutoCaptures
  utterances,            \* the speechSynthesis queue
  hasSR,                 \* window.SpeechRecognition exists: "yes" | "no", "unknown" until first read
  recognitionRef,        \* index into recognizers, or Null
  recognizers,           \* every recognizer created by startListening
  runs,                  \* every invocation of finishInterview
  stopped                \* history: stopListening has run for the current question since the last startListening

roomVars  == <<isLoading, questions, currentQuestionIndex, responses, isSpeaking,
               isListening, currentAnswer, videoEnabled, micEnabled, isRecording, isAnalyzing, analysis, hasSpoken, capturedPhotos>>
mediaVars == <<streamRef, streams, mediaPending, nAcquire, schedules>>
speechVars == <<utterances, hasSR, recognitionRef, recognizers>>
serverVars == <<request, reply>>
recorderVars == <<recorder, videoRuns>>
vars == <<step, mounted, loadPending, roomVars, mediaVars, speechVars, runs, stopped,
          interviewData, serverVars, recorderVars>>

\* ------------------------------------------------------------------ helpers
QuestionText(n) == IF n = 1 THEN "q1" ELSE IF n = 2 THEN "q2" ELSE "q3"

\* data.result of a successful generate_questions call with n questions
LoadedQuestions(n) == [k \in 1..n |-> QuestionText(k)]

\* loadedQuestions.map((q) => ({ question: q, answer: "" }))
EmptyResponses(qs) == [k \in 1..Len(qs) |-> [question |-> qs[k], answer |-> << >>]]

\* arr[i] of a JavaScript array, i counted from 0: undefined out of range
JsGet(arr, i) == IF i + 1 \in DOMAIN arr THEN arr[i + 1] ELSE "undefined"

\* arr[i] = v on a copy of a JavaScript array, i counted from 0: the array
\* grows (with holes) when i is not below its length
Hole == [question |-> "undefined", answer |-> <<"undefined">>]

JsSet(arr, i, v) ==
  IF i + 1 \in DOMAIN arr
    THEN [arr EXCEPT ![i + 1] = v]
    ELSE [k \in 1..(i + 1) |-> IF k \in DOMAIN arr THEN arr[k]
                               ELSE IF k = i + 1 THEN v ELSE Hole]

\* the three screens of the render function
ShowsLoading  == mounted /\ isLoading
ShowsPreMedia == mounted /\ ~isLoading /\ ~videoEnabled
ShowsRoom     == mounted /\ ~isLoading /\ videoEnabled

\* videoPreviewRef.current: set while <VideoPreview> is rendered
VideoPreviewRef == ShowsRoom

\* the values of the analysis state of ResultsScreen: null, the result of
\* the catch block, the result of the server's parse-error branch, and a
\* result written by the text-generation model
NoAnalysis     == [score |-> -1, analysis |-> "null", recommendation |-> "null"]
ClientFallback == [score |-> 70, analysis |-> "issue", recommendation |-> "consider"]
ServerFallback == [score |-> 70, analysis |-> "unable", recommendation |-> "consider"]
AiAnalysis     == [score |-> 85, analysis |-> "ai", recommendation |-> "hire"]

\* the initial interviewData of Index (candidateName is left out: no
\* handler changes it)
EmptyInterviewData ==
  [category |-> "", questions |-> << >>, responses |-> << >>, videoUrl |-> Null]

\* no request is being served; no MediaRecorder was constructed
NoRequest  == [auth |-> "-", body |-> "-", action |-> "-", category |-> "-",
               responses |-> "-", key |-> FALSE]
NoReply    == [status |-> 0, gateway |-> FALSE]
NoRecorder == [variant |-> "-", state |-> "none", events |-> << >>, chunks |-> 0]

Init ==
  /\ step = "interview"
  /\ mounted = TRUE
  /\ loadPending = TRUE
  /\ isLoading = TRUE
  /\ questions = << >>
  /\ currentQuestionIndex = 0
  /\ responses = << >>
  /\ isSpeaking = FALSE
  /\ isListening = FALSE
  /\ currentAnswer = << >>
  /\ videoEnabled = FALSE
  /\ micEnabled = FALSE
  /\ isRecording = FALSE
  /\ isAnalyzing = TRUE
  /\ analysis = NoAnalysis
  /\ interviewData = [EmptyInterviewData EXCEPT !.category = "c"]
  /\ request = NoRequest
  /\ reply = NoReply
  /\ recorder = NoRecorder
  /\ videoRuns = << >>
  /\ hasSpoken = FALSE
  /\ capturedPhotos = << >>
  /\ streamRef = Null
  /\ streams = << >>
  /\ mediaPending = << >>
  /\ nAcquire = 0
  /\ schedules = << >>
  /\ utterances = << >>
  /\ hasSR = "unknown"
  /\ recognitionRef = Null
  /\ recognizers = << >>
  /\ runs = << >>
  /\ stopped = FALSE

\* ------------------------------------------------------------ loadQuestions
\* the continuation of loadQuestions after the await: ok is "no error", qs is
\* data.result
SetLoaded(ok, qs) ==
  /\ loadPending
  /\ loadPending' = FALSE
  /\ IF mounted
       THEN /\ isLoading' = FALSE
            /\ IF ok
                 THEN /\ questions' = qs
                      /\ responses' = EmptyResponses(qs)
                 ELSE UNCHANGED <<questions, responses>>
       ELSE UNCHANGED <<isLoading, questions, responses>>
  /\ UNCHANGED <<step, mounted, currentQuestionIndex, isSpeaking, isListening,
                 currentAnswer, videoEnabled, micEnabled, isRecording, isAnalyzing, analysis, serverVars, recorderVars, interviewData, hasSpoken, capturedPhotos,
                 mediaVars, speechVars, runs, stopped>>

\* the reply of functions.invoke: n >= 0 questions, or an error (n = -1)
loadQuestions(n) == SetLoaded(n >= 0, LoadedQuestions(n))

\* ------------------------------------------------- interview-ai (the server)
\* the fallback questions of the parse-error branch
TemplateQuestions == <<"t1", "t2", "t3", "t4", "t5">>

\* what the text-generation gateway can answer: status 0 is a fetch that
\* throws (network error); content is the number of questions in the JSON
\* array of the reply, -1 for a reply JSON.parse rejects
GatewayReplies ==
  {[status |-> 200, content |-> n] : n \in -1..MaxQuestions}
    \cup {[status |-> st, content |-> -1] : st \in {0, 402, 429, 500}}

\* the response of serve() to a generate_questions request
ServeGenerateQuestions(g) ==
  IF g.status = 0 THEN [status |-> 500, result |-> << >>]
  ELSE IF g.status # 200
    THEN [status |-> IF g.status \in {429, 402} THEN g.status ELSE 500,
          result |-> << >>]
  ELSE IF g.content < 0 THEN [status |-> 200, result |-> TemplateQuestions]
  ELSE [status |-> 200, result |-> LoadedQuestions(g.content)]

\* the requests serve() can receive: auth is the Authorization header ("none":
\* missing or not a Bearer token, "invalid": a token getUser rejects), body
\* is what req.json() finds, action is missing or not a string ("none"),
\* another string ("other") or one of the two actions, category is missing,
\* empty or not a string ("none"), longer than 100 characters ("long") or
\* "ok", responses is not an array ("none"), an empty array or "ok"; key is
\* whether LOVABLE_API_KEY is configured when the request is served
Requests ==
  [auth : {"none", "invalid", "user"},
   body : {"json", "malformed"},
   action : {"none", "other", "generate_questions", "analyze_responses"},
   category : {"none", "long", "ok"},
   responses : {"none", "empty", "ok"},
   key : BOOLEAN]

\* ServeChecks without the validation of responses
ServeChecks_NoResponsesCheck(req) ==
  IF req.auth = "none" THEN 401
  ELSE IF req.auth = "invalid" THEN 401
  ELSE IF req.body = "malformed" THEN 500
  ELSE IF req.action = "none" THEN 400
  ELSE IF req.action = "other" THEN 400
  ELSE IF req.category # "ok" THEN 400
  ELSE IF ~req.key THEN 500
  ELSE 0

\* the part of serve() before the gateway call: the status of the response
\* it returns, or 0 when it goes on to the gateway
ServeChecks(req) ==
  IF req.auth = "none" THEN 401
  ELSE IF req.auth = "invalid" THEN 401
  ELSE IF req.body = "malformed" THEN 500
  ELSE IF req.action = "none" THEN 400
  ELSE IF req.action = "other" THEN 400
  ELSE IF req.category # "ok" THEN 400
  ELSE IF ~req.key THEN 500
  ELSE IF req.action = "analyze_responses" /\ req.responses # "ok" THEN 400
  ELSE 0

\* a request arrives at the function
receive(req) ==
  /\ request = NoRequest
  /\ request' = req
  /\ UNCHANGED <<reply, step, mounted, loadPending, roomVars, mediaVars, speechVars,
                 runs, stopped, interviewData, recorderVars>>

\* serve() handles the request; st is what the gateway answers if asked
\* (0: the fetch throws)
serve(st) ==
  /\ request # NoRequest
  /\ reply = NoReply
  /\ reply' = IF ServeChecks(request) # 0
                THEN [status |-> ServeChecks(request), gateway |-> FALSE]
                ELSE [status |-> IF st = 200 THEN 200
                                 ELSE IF st \in {429, 402} THEN st ELSE 500,
                      gateway |-> TRUE]
  /\ UNCHANGED <<request, step, mounted, loadPending, roomVars, mediaVars, speechVars,
                 runs, stopped, interviewData, recorderVars>>

\* loadQuestions against the server: functions.invoke reports an error for
\* every non-2xx response
generateQuestions(g) ==
  LET r == ServeGenerateQuestions(g)
  IN SetLoaded(r.status = 200, r.result)

\* --------------------------------------------------------------- startMedia
\* the click on "Enable Camera & Microphone": getUserMedia is called and the
\* handler suspends; the closure keeps the capturedPhotos of this render
startMedia ==
  /\ ShowsPreMedia
  /\ nAcquire < MaxAcquire
  /\ nAcquire' = nAcquire + 1
  /\ mediaPending' = Append(mediaPending, [seen |-> Len(capturedPhotos)])
  /\ UNCHANGED <<step, mounted, loadPending, roomVars, serverVars, recorderVars, interviewData, streamRef, streams,
                 schedules, speechVars, runs, stopped>>

\* scheduleAutoCaptures: three timers whose callbacks read the capturedPhotos
\* and the capturePhoto of the render that called startMedia
scheduleAutoCaptures(seen) ==
  Append(schedules, [seen |-> seen, left |-> TimersPerSchedule])

RemoveAt(seq, k) == [j \in 1..(Len(seq) - 1) |-> IF j < k THEN seq[j] ELSE seq[j + 1]]

\* getUserMedia resolves: the rest of the try block of startMedia
startMediaResolved(k) ==
  /\ k \in DOMAIN mediaPending
  /\ mediaPending' = RemoveAt(mediaPending, k)
  /\ streams' = Append(streams, [live |-> TRUE, wired |-> VideoPreviewRef])
  /\ streamRef' = Len(streams) + 1
  /\ videoEnabled' = IF mounted THEN TRUE ELSE videoEnabled
  /\ micEnabled' = IF mounted THEN TRUE ELSE micEnabled
  /\ schedules' = scheduleAutoCaptures(mediaPending[k].seen)
  /\ UNCHANGED <<isRecording, isAnalyzing, analysis, serverVars, recorderVars, interviewData, step, mounted, loadPending, isLoading, questions,
                 currentQuestionIndex, responses, isSpeaking, isListening,
                 currentAnswer, hasSpoken, capturedPhotos, nAcquire,
                 speechVars, runs, stopped>>

\* the video-recording variant of the room (components/InterviewRoom.tsx):
\* getUserMedia resolves and the rest of the try block runs; o = "throws" is
\* the MediaRecorder constructor or start() throwing (unsupported mimeType,
\* no MediaRecorder), which the catch block only reports
startMediaRecorded(k, o) ==
  /\ k \in DOMAIN mediaPending
  /\ mediaPending' = RemoveAt(mediaPending, k)
  /\ streams' = Append(streams, [live |-> TRUE, wired |-> VideoPreviewRef])
  /\ streamRef' = Len(streams) + 1
  /\ videoEnabled' = IF mounted THEN TRUE ELSE videoEnabled
  /\ micEnabled' = IF mounted THEN TRUE ELSE micEnabled
  /\ isRecording' = IF mounted /\ o = "started" THEN TRUE ELSE isRecording
  /\ UNCHANGED <<isAnalyzing, analysis, serverVars, recorderVars, interviewData, step, mounted, loadPending, isLoading, questions,
                 currentQuestionIndex, responses, isSpeaking, isListening,
                 currentAnswer, hasSpoken, capturedPhotos, nAcquire, schedules,
                 speechVars, runs, stopped>>

\* getUserMedia rejects (permission denied, no device): the catch block
startMediaRejected(k) ==
  /\ k \in DOMAIN mediaPending
  /\ mediaPending' = RemoveAt(mediaPending, k)
  /\ UNCHANGED <<step, mounted, loadPending, roomVars, serverVars, recorderVars, interviewData, streamRef, streams,
                 nAcquire, schedules, speechVars, runs, stopped>>

\* ------------------------------------------------------------- capturePhoto
\* capturePhoto as created by a render in which capturedPhotos.length = len;
\* frame is what captureFrame returns (FALSE: null)
capturePhoto(len, frame) ==
  IF ~VideoPreviewRef THEN capturedPhotos
  ELSE IF len >= MaxPhotos THEN capturedPhotos
  ELSE IF frame /\ mounted THEN Append(capturedPhotos, Len(capturedPhotos) + 1)
  ELSE capturedPhotos

\* the camera button of VideoPreview: the capturePhoto of the current render
onCapturePhoto(frame) ==
  /\ ShowsRoom
  /\ capturedPhotos' = capturePhoto(Len(capturedPhotos), frame)
  /\ UNCHANGED <<step, mounted, loadPending, isLoading, questions,
                 currentQuestionIndex, responses, isSpeaking, isListening,
                 currentAnswer, videoEnabled, micEnabled, isRecording, isAnalyzing, analysis, serverVars, recorderVars, interviewData, hasSpoken, mediaVars,
                 speechVars, runs, stopped>>

\* the callback of one setTimeout of schedule s
autoCaptureTimer(s, frame) ==
  /\ s \in DOMAIN schedules
  /\ schedules[s].left > 0
  /\ schedules' = [schedules EXCEPT ![s].left = @ - 1]
  /\ capturedPhotos' = IF schedules[s].seen < MaxPhotos
                         THEN capturePhoto(schedules[s].seen, frame)
                         ELSE capturedPhotos
  /\ UNCHANGED <<step, mounted, loadPending, isLoading, questions,
                 currentQuestionIndex, responses, isSpeaking, isListening,
                 currentAnswer, videoEnabled, micEnabled, isRecording, isAnalyzing, analysis, serverVars, recorderVars, interviewData, hasSpoken, streamRef, streams,
                 mediaPending, nAcquire, speechVars, runs, stopped>>

\* autoCaptureTimersRef.current.forEach(timer => clearTimeout(timer))
ClearTimers(ss) == [s \in DOMAIN ss |-> [ss[s] EXCEPT !.left = 0]]

\* -------------------------------------------------------------- toggleVideo
toggleVideo ==
  /\ ShowsRoom
  /\ videoEnabled' = IF streamRef # Null THEN ~videoEnabled ELSE videoEnabled
  /\ UNCHANGED <<micEnabled, isRecording, isAnalyzing, analysis, serverVars, recorderVars, interviewData, step, mounted, loadPending, isLoading, questions,
                 currentQuestionIndex, responses, isSpeaking, isListening,
                 currentAnswer, hasSpoken, capturedPhotos, mediaVars,
                 speechVars, runs, stopped>>

\* ---------------------------------------------------------------- toggleMic
toggleMic ==
  /\ ShowsRoom
  /\ micEnabled' = IF streamRef # Null THEN ~micEnabled ELSE micEnabled
  /\ UNCHANGED <<step, mounted, loadPending, isLoading, questions,
                 currentQuestionIndex, responses, isSpeaking, isListening,
                 currentAnswer, videoEnabled, isRecording, isAnalyzing, analysis, serverVars, recorderVars, interviewData, hasSpoken,
                 capturedPhotos, mediaVars, speechVars, runs, stopped>>

\* ------------------------------------------------------------------ unmount
\* the component goes away (sign-out, navigation): the effect cleanup
unmount ==
  /\ mounted
  /\ mounted' = FALSE
  /\ step' = "signedOut"
  /\ schedules' = ClearTimers(schedules)
  /\ UNCHANGED <<loadPending, roomVars, serverVars, recorderVars, interviewData, streamRef, streams, mediaPending,
                 nAcquire, speechVars, runs, stopped>>

\* ------------------------------------------------------------ speakQuestion
\* "Listen to Question": an utterance for the current question is queued
speakQuestion ==
  /\ ShowsRoom
  /\ ~hasSpoken
  /\ ~isSpeaking
  /\ Len(utterances) < MaxUtter
  /\ utterances' = Append(utterances, [idx |-> currentQuestionIndex, started |-> FALSE])
  /\ UNCHANGED <<step, mounted, loadPending, roomVars, serverVars, recorderVars, interviewData, mediaVars, hasSR,
                 recognitionRef, recognizers, runs, stopped>>

\* utterance.onstart
utteranceOnstart ==
  /\ utterances # << >>
  /\ ~utterances[1].started
  /\ utterances' = [utterances EXCEPT ![1].started = TRUE]
  /\ isSpeaking' = IF mounted THEN TRUE ELSE isSpeaking
  /\ UNCHANGED <<step, mounted, loadPending, isLoading, questions,
                 currentQuestionIndex, responses, isListening, currentAnswer,
                 videoEnabled, micEnabled, isRecording, isAnalyzing, analysis, serverVars, recorderVars, interviewData, hasSpoken, capturedPhotos, mediaVars, hasSR,
                 recognitionRef, recognizers, runs, stopped>>

\* UtteranceDone without setIsSpeaking(false)
UtteranceDone_StillSpeaking ==
  /\ utterances' = Tail(utterances)
  /\ hasSpoken' = IF mounted THEN TRUE ELSE hasSpoken
  /\ UNCHANGED <<step, mounted, loadPending, isLoading, questions,
                 currentQuestionIndex, responses, isSpeaking, isListening, currentAnswer,
                 videoEnabled, micEnabled, isRecording, isAnalyzing, analysis, serverVars, recorderVars, interviewData, capturedPhotos, mediaVars, hasSR,
                 recognitionRef, recognizers, runs, stopped>>

\* the body shared by utterance.onend and utterance.onerror
UtteranceDone ==
  /\ utterances' = Tail(utterances)
  /\ isSpeaking' = IF mounted THEN FALSE ELSE isSpeaking
  /\ hasSpoken' = IF mounted THEN TRUE ELSE hasSpoken
  /\ UNCHANGED <<step, mounted, loadPending, isLoading, questions,
                 currentQuestionIndex, responses, isListening, currentAnswer,
                 videoEnabled, micEnabled, isRecording, isAnalyzing, analysis, serverVars, recorderVars, interviewData, capturedPhotos, mediaVars, hasSR,
                 recognitionRef, recognizers, runs, stopped>>

\* utterance.onend: the utterance was spoken to its end
utteranceOnend ==
  /\ utterances # << >>
  /\ utterances[1].started
  /\ UtteranceDone

\* utterance.onerror without setHasSpoken(true)
utteranceOnerror_NoSpoken ==
  /\ utterances # << >>
  /\ utterances' = Tail(utterances)
  /\ isSpeaking' = IF mounted THEN FALSE ELSE isSpeaking
  /\ UNCHANGED <<step, mounted, loadPending, isLoading, questions,
                 currentQuestionIndex, responses, isListening, currentAnswer,
                 videoEnabled, micEnabled, isRecording, isAnalyzing, analysis, serverVars, recorderVars, interviewData, hasSpoken,
                 capturedPhotos, mediaVars, hasSR, recognitionRef, recognizers,
                 runs, stopped>>

\* utterance.onerror: synthesis failed, before or after it started
utteranceOnerror ==
  /\ utterances # << >>
  /\ UtteranceDone

\* ----------------------------------------------------------- startListening
\* startListening without the test of SpeechRecognitionClass
startListening_NoCheck ==
  /\ ShowsRoom
  /\ hasSpoken
  /\ ~isListening
  /\ Len(recognizers) < MaxRecog
  /\ hasSR' \in (IF hasSR = "unknown" THEN {"yes", "no"} ELSE {hasSR})
  /\ recognizers' = Append(recognizers, [state |-> "starting", final |-> << >>, interim |-> << >>,
                                             idx |-> currentQuestionIndex])
  /\ recognitionRef' = Len(recognizers) + 1
  /\ stopped' = FALSE
  /\ UNCHANGED <<step, mounted, loadPending, roomVars, serverVars, recorderVars, interviewData, mediaVars, utterances,
                 runs>>

\* "Start Speaking": a new recognizer replaces the one in recognitionRef;
\* final is its finalTranscript, interim (history) the interimTranscript of
\* its latest result event, idx (history) the question it was created for
startListening ==
  /\ ShowsRoom
  /\ hasSpoken
  /\ ~isListening
  /\ Len(recognizers) < MaxRecog
  /\ hasSR' \in (IF hasSR = "unknown" THEN {"yes", "no"} ELSE {hasSR})
  /\ IF hasSR' = "yes"
       THEN /\ recognizers' = Append(recognizers, [state |-> "starting", final |-> << >>, interim |-> << >>,
                                             idx |-> currentQuestionIndex])
            /\ recognitionRef' = Len(recognizers) + 1
            /\ stopped' = FALSE
       ELSE UNCHANGED <<recognizers, recognitionRef, stopped>>
  /\ UNCHANGED <<step, mounted, loadPending, roomVars, serverVars, recorderVars, interviewData, mediaVars, utterances,
                 runs>>

\* recognition.onstart
recognitionOnstart(r) ==
  /\ r \in DOMAIN recognizers
  /\ recognizers[r].state = "starting"
  /\ recognizers' = [recognizers EXCEPT ![r].state = "running"]
  /\ isListening' = IF mounted THEN TRUE ELSE isListening
  /\ UNCHANGED <<step, mounted, loadPending, isLoading, questions,
                 currentQuestionIndex, responses, isSpeaking, currentAnswer,
                 videoEnabled, micEnabled, isRecording, isAnalyzing, analysis, serverVars, recorderVars, interviewData, hasSpoken, capturedPhotos, mediaVars,
                 utterances, hasSR, recognitionRef, runs, stopped>>

\* the loop of recognition.onresult over event.results[resultIndex..]: ev is
\* that tail, a sequence of [transcript, isFinal]; the result is the pair
\* <<finalTranscript, interimTranscript>>
RECURSIVE ResultLoop(_, _, _)
ResultLoop(final, interim, ev) ==
  IF ev = << >> THEN <<final, interim>>
  ELSE IF ev[1].isFinal
    THEN ResultLoop(final \o ev[1].transcript \o <<" ">>, interim, Tail(ev))
    ELSE ResultLoop(final, interim \o ev[1].transcript, Tail(ev))

\* the result events a recognizer can deliver
ResultEvents == { <<[transcript |-> <<w>>, isFinal |-> f]>> : w \in Words, f \in BOOLEAN }

\* recognition.onresult; a recognizer that was told to stop may still
\* deliver the result of the audio it has captured
recognitionOnresult(r, ev) ==
  /\ r \in DOMAIN recognizers
  /\ recognizers[r].state \in {"running", "stopping"}
  /\ \A k \in DOMAIN ev : ev[k].isFinal => Len(recognizers[r].final) < 2 * MaxFinal
  /\ LET res == ResultLoop(recognizers[r].final, << >>, ev) IN
       /\ recognizers' = [recognizers EXCEPT ![r].final = res[1], ![r].interim = res[2]]
       /\ currentAnswer' = IF mounted THEN res[1] \o res[2] ELSE currentAnswer
  /\ UNCHANGED <<step, mounted, loadPending, isLoading, questions,
                 currentQuestionIndex, responses, isSpeaking, isListening,
                 videoEnabled, micEnabled, isRecording, isAnalyzing, analysis, serverVars, recorderVars, interviewData, hasSpoken, capturedPhotos, mediaVars,
                 utterances, hasSR, recognitionRef, runs, stopped>>

\* recognition.onerror (an end event follows it)
recognitionOnerror(r) ==
  /\ r \in DOMAIN recognizers
  /\ recognizers[r].state \in {"starting", "running", "stopping"}
  /\ recognizers' = [recognizers EXCEPT ![r].state = "errored"]
  /\ isListening' = IF mounted THEN FALSE ELSE isListening
  /\ UNCHANGED <<step, mounted, loadPending, isLoading, questions,
                 currentQuestionIndex, responses, isSpeaking, currentAnswer,
                 videoEnabled, micEnabled, isRecording, isAnalyzing, analysis, serverVars, recorderVars, interviewData, hasSpoken, capturedPhotos, mediaVars,
                 utterances, hasSR, recognitionRef, runs, stopped>>

\* recognition.onend: after stop(), after an error, or by the recognizer itself
recognitionOnend(r) ==
  /\ r \in DOMAIN recognizers
  /\ recognizers[r].state \in {"running", "stopping", "errored"}
  /\ recognizers' = [recognizers EXCEPT ![r].state = "ended"]
  /\ isListening' = IF mounted THEN FALSE ELSE isListening
  /\ UNCHANGED <<step, mounted, loadPending, isLoading, questions,
                 currentQuestionIndex, responses, isSpeaking, currentAnswer,
                 videoEnabled, micEnabled, isRecording, isAnalyzing, analysis, serverVars, recorderVars, interviewData, hasSpoken, capturedPhotos, mediaVars,
                 utterances, hasSR, recognitionRef, runs, stopped>>

\* ------------------------------------------------------------ stopListening
\* recognitionRef.current.stop()
RecognitionStop ==
  IF recognitionRef # Null
    THEN [recognizers EXCEPT ![recognitionRef].state =
            IF @ \in {"starting", "running"} THEN "stopping" ELSE @]
    ELSE recognizers

\* SaveAnswer without the write of updated[currentQuestionIndex]
SaveAnswer_NoCommit(prev) == prev

\* the updater passed to setResponses
SaveAnswer(prev) ==
  JsSet(prev, currentQuestionIndex,
        [question |-> JsGet(questions, currentQuestionIndex), answer |-> currentAnswer])

\* what stopListening does, as part of the click or of handleNext
StopListeningBody ==
  /\ recognizers' = RecognitionStop
  /\ isListening' = FALSE
  /\ responses' = SaveAnswer(responses)

\* "Stop Recording"
stopListening ==
  /\ ShowsRoom
  /\ hasSpoken
  /\ isListening
  /\ StopListeningBody
  /\ stopped' = TRUE
  /\ UNCHANGED <<step, mounted, loadPending, isLoading, questions,
                 currentQuestionIndex, isSpeaking, currentAnswer, videoEnabled, micEnabled, isRecording, isAnalyzing, analysis, serverVars, recorderVars, interviewData,
                 hasSpoken, capturedPhotos, mediaVars, utterances, hasSR,
                 recognitionRef, runs>>

\* ---------------------------------------------------------- finishInterview
\* streamRef.current.getTracks().forEach((track) => track.stop())
StopTracks(ss) ==
  IF streamRef # Null THEN [ss EXCEPT ![streamRef].live = FALSE] ELSE ss

\* history: no stream is live and no capture timer is armed
Released(ss, sch) ==
  /\ \A k \in DOMAIN ss : ~ss[k].live
  /\ \A k \in DOMAIN sch : sch[k].left = 0

\* Complete handing over the last signed URL instead of the first
Complete_LastUrl(run) ==
  [run EXCEPT !.pc = "done",
              !.videoUrl = IF Len(run.photoUrls) > 0
                             THEN run.photoUrls[Len(run.photoUrls)] ELSE Null]

\* photoUrls.length > 0 ? photoUrls[0] : null, and the call of onComplete
Complete(run) ==
  [run EXCEPT !.pc = "done",
              !.videoUrl = IF Len(run.photoUrls) > 0 THEN run.photoUrls[1] ELSE Null]

\* StartRun without the capturedPhotos.length > 0 test: the auth lookup is
\* issued whatever was captured
StartRun_AlwaysAuth(qs, rs, photos, committed, released) ==
  [pc |-> "auth", auth |-> "pending", i |-> 0,
   questions |-> qs, responses |-> rs, photos |-> photos,
   committed |-> committed, released |-> released,
   photoUrls |-> << >>, signed |-> {}, paths |-> << >>, videoUrl |-> Null]

\* the synchronous part of finishInterview, called by a render whose
\* questions, responses and capturedPhotos are qs, rs and photos; committed
\* (history) is the responses state the same handleNext has just requested;
\* signed (history) is the set of loop indices whose upload and signed-URL
\* request both succeeded
StartRun(qs, rs, photos, committed, released) ==
  LET run == [pc |-> "auth", auth |-> "pending", i |-> 0,
              questions |-> qs, responses |-> rs, photos |-> photos,
              committed |-> committed, released |-> released,
              photoUrls |-> << >>, signed |-> {}, paths |-> << >>, videoUrl |-> Null]
  IN IF Len(photos) > 0 THEN run ELSE Complete([run EXCEPT !.auth = "skipped"])

\* Date.now() as the file names of one run see it: the clock is taken not to
\* tick between two uploads, the case in which it tells no two names apart
Now == 0

\* FileName without the -photo${i + 1} suffix
FileName_NoSeq(uid, i) == <<uid, "interview", Now, "photo">>

\* `${user.id}/interview-${name}-${Date.now()}-photo${i + 1}.jpg`, as the
\* tuple of its parts; uid is the user the auth lookup returned, i the loop
\* variable
FileName(uid, i) == <<uid, "interview", Now, i + 1>>

\* the upload of the next photo is issued, or the loop is over; i is the
\* loop variable plus one, hence the number of uploads issued so far; paths
\* (history) are the file names uploaded to
NextPhoto(run) ==
  IF run.i < Len(run.photos)
    THEN [run EXCEPT !.pc = "upload", !.i = @ + 1,
                     !.paths = Append(@, FileName(run.auth, run.i))]
    ELSE Complete(run)

\* OnGetUser without the return of the "no user" branch
OnGetUser_NoReturn(run, o) ==
  IF o = "throw" THEN Complete([run EXCEPT !.auth = o])
  ELSE NextPhoto([run EXCEPT !.auth = o])

\* supabase.auth.getUser() settles: "user", "none" (user is null) or "throw"
OnGetUser(run, o) ==
  IF o = "none" THEN [run EXCEPT !.auth = o, !.pc = "done", !.videoUrl = Null]
  ELSE IF o = "throw" THEN Complete([run EXCEPT !.auth = o])
  ELSE NextPhoto([run EXCEPT !.auth = o])

\* OnUpload without the try/catch around the loop: the exception leaves
\* finishInterview and onComplete is never reached
OnUpload_Uncaught(run, o) ==
  IF o = "error" THEN NextPhoto(run)
  ELSE IF o = "throw" THEN [run EXCEPT !.pc = "failed"]
  ELSE [run EXCEPT !.pc = "sign"]

\* storage.upload settles: "ok", "error" ({error}) or "throw"
OnUpload(run, o) ==
  IF o = "error" THEN NextPhoto(run)
  ELSE IF o = "throw" THEN Complete(run)
  ELSE [run EXCEPT !.pc = "sign"]

\* storage.createSignedUrl settles: "url", "none" (no signedUrl) or "throw"
OnSignedUrl(run, o) ==
  IF o = "url" THEN NextPhoto([run EXCEPT !.photoUrls = Append(@, run.photos[run.i]),
                                          !.signed = @ \cup {run.i}])
  ELSE IF o = "throw" THEN Complete(run)
  ELSE NextPhoto(run)

\* Index.handleInterviewComplete, called with the payload of a run: nothing
\* happens when Index is gone (signed out); otherwise interviewData takes
\* the payload and the step becomes "results", which replaces the interview
\* room, whose effect cleanup then clears the timers
HandleInterviewComplete(sch, data) ==
  /\ step' = IF step = "signedOut" THEN step ELSE "results"
  /\ interviewData' = IF step = "signedOut" THEN interviewData
                      ELSE [interviewData EXCEPT !.questions = data.questions,
                                                 !.responses = data.responses,
                                                 !.videoUrl = data.videoUrl]
  /\ mounted' = IF step = "interview" THEN FALSE ELSE mounted
  /\ schedules' = IF step = "interview" THEN ClearTimers(sch) ELSE sch

\* --------------------------------------------------------------- handleNext
\* "Next" / "Finish"
handleNext ==
  /\ ShowsRoom
  /\ hasSpoken
  /\ ~isListening
  /\ Len(runs) < MaxRuns
  /\ StopListeningBody
  /\ hasSpoken' = FALSE
  /\ currentAnswer' = << >>
  /\ IF currentQuestionIndex < Len(questions) - 1
       THEN /\ currentQuestionIndex' = currentQuestionIndex + 1
            /\ stopped' = FALSE
            /\ UNCHANGED <<step, mounted, streams, schedules, runs, interviewData>>
       ELSE /\ streams' = StopTracks(streams)
            /\ LET run == StartRun(questions, responses, capturedPhotos, responses',
                                   Released(streams', ClearTimers(schedules)))
               IN /\ runs' = Append(runs, run)
                  /\ IF run.pc = "done"
                       THEN HandleInterviewComplete(ClearTimers(schedules), run)
                       ELSE /\ schedules' = ClearTimers(schedules)
                            /\ UNCHANGED <<step, mounted, interviewData>>
            /\ stopped' = TRUE
            /\ UNCHANGED currentQuestionIndex
  /\ UNCHANGED <<loadPending, isLoading, questions, isSpeaking, videoEnabled, micEnabled, isRecording, isAnalyzing, analysis, serverVars, recorderVars,
                 capturedPhotos, streamRef, mediaPending, nAcquire, utterances,
                 hasSR, recognitionRef>>

\* an awaited call of run r settles and the run continues to its next await
Settle(r, run) ==
  /\ runs' = [runs EXCEPT ![r] = run]
  /\ IF run.pc = "done"
       THEN HandleInterviewComplete(schedules, run)
       ELSE UNCHANGED <<step, mounted, schedules, interviewData>>
  /\ UNCHANGED <<loadPending, roomVars, serverVars, recorderVars, streamRef, streams, mediaPending,
                 nAcquire, speechVars, stopped>>

getUserSettled(r, o) ==
  /\ r \in DOMAIN runs
  /\ runs[r].pc = "auth"
  /\ Settle(r, OnGetUser(runs[r], o))

uploadSettled(r, o) ==
  /\ r \in DOMAIN runs
  /\ runs[r].pc = "upload"
  /\ Settle(r, OnUpload(runs[r], o))

signedUrlSettled(r, o) ==
  /\ r \in DOMAIN runs
  /\ runs[r].pc = "sign"
  /\ Settle(r, OnSignedUrl(runs[r], o))

\* ------------------------------------------------------------ specifications
\* ------------------------------------------------------------ ResultsScreen
\* run r has called onComplete
Done(r) == r \in DOMAIN runs /\ runs[r].pc = "done"

\* what the gateway can answer to the analysis prompt: status 0 is a fetch
\* that throws; content is "analysis" for the JSON object asked for, "null"
\* for the JSON text null, "garbage" for a reply JSON.parse rejects
AnalysisReplies ==
  {[status |-> 200, content |-> c] : c \in {"analysis", "null", "garbage"}}
    \cup {[status |-> st, content |-> "garbage"] : st \in {0, 402, 429, 500}}

\* the response of serve() to an analyze_responses request carrying rs
ServeAnalyzeResponses(g, rs) ==
  IF Len(rs) = 0 THEN [status |-> 400, result |-> NoAnalysis]
  ELSE IF \E k \in DOMAIN rs : rs[k] = Hole THEN [status |-> 500, result |-> NoAnalysis]
  ELSE IF g.status = 0 THEN [status |-> 500, result |-> NoAnalysis]
  ELSE IF g.status # 200
    THEN [status |-> IF g.status \in {429, 402} THEN g.status ELSE 500,
          result |-> NoAnalysis]
  ELSE IF g.content = "garbage" THEN [status |-> 200, result |-> ServerFallback]
  ELSE IF g.content = "null" THEN [status |-> 200, result |-> NoAnalysis]
  ELSE [status |-> 200, result |-> AiAnalysis]

\* SetAnalysis without the fallback of the catch block
SetAnalysis_NoFallback(ok, result) ==
  /\ analysis' = IF ok THEN result ELSE analysis
  /\ isAnalyzing' = FALSE

\* the continuation of analyzeInterview after the await: try, catch, finally
SetAnalysis(ok, result) ==
  /\ analysis' = IF ok THEN result ELSE ClientFallback
  /\ isAnalyzing' = FALSE

\* the analysis request ResultsScreen issued when it mounted settles; it
\* carried the responses of a completed run r, and functions.invoke reports
\* an error for every non-2xx response
analyzeInterview(r, g) ==
  /\ step = "results"
  /\ isAnalyzing
  /\ Done(r)
  /\ LET res == ServeAnalyzeResponses(g, runs[r].responses)
     IN SetAnalysis(res.status = 200, res.result)
  /\ UNCHANGED <<step, mounted, loadPending, isLoading, questions,
                 currentQuestionIndex, responses, isSpeaking, isListening,
                 currentAnswer, videoEnabled, micEnabled, isRecording, hasSpoken,
                 capturedPhotos, mediaVars, speechVars, runs, stopped,
                 serverVars, recorderVars, interviewData>>

\* ------------------------------------------- the video-recording variants
\* recorder.variant is "onstop" for components/InterviewRoom.tsx, whose
\* finishInterview waits for the stop event, and "older" for part_001;
\* recorder.state is MediaRecorder.state ("none": no recorder was
\* constructed), recorder.events the events stop() has queued and not yet
\* delivered, recorder.chunks the length of chunksRef.current

\* mediaRecorder.ondataavailable during recording (timeslice 1000 ms)
ondataavailable ==
  /\ recorder.state = "recording"
  /\ recorder.chunks < MaxChunks
  /\ recorder' = [recorder EXCEPT !.chunks = @ + 1]
  /\ UNCHANGED <<step, mounted, loadPending, roomVars, mediaVars, speechVars, runs,
                 stopped, interviewData, serverVars, videoRuns>>

\* MediaRecorder.stop(): the state is "inactive" at once; the last data and
\* the stop event are delivered later, in this order
RecorderStop(rec) ==
  IF rec.state = "recording"
    THEN [rec EXCEPT !.state = "inactive", !.events = <<"dataavailable", "stop">>]
    ELSE rec

\* onComplete({ questions, responses, videoUrl })
VideoComplete(run, url) == [run EXCEPT !.pc = "done", !.videoUrl = url]

\* new Blob(chunksRef.current): blob is the number of chunks it holds and
\* afterStop (history) whether no recorder event was still to come
Assemble(run, rec) == [run EXCEPT !.blob = rec.chunks, !.afterStop = (rec.events = << >>)]

\* uploadAndComplete up to its first await
UploadAndComplete(run, rec) ==
  IF rec.chunks > 0 THEN [run EXCEPT !.pc = "auth"] ELSE VideoComplete(run, Null)

\* the older finishInterview after stop(), up to its first await
OlderFinish(run, rec) ==
  IF rec.chunks > 0 THEN [Assemble(run, rec) EXCEPT !.pc = "upload"]
  ELSE VideoComplete(run, Null)

\* the synchronous part of finishInterview of a video variant; active is
\* mediaRecorderRef.current.state !== "inactive" at that time
StartVideoRun(qs, rs) ==
  LET active == recorder.state = "recording"
      run == [pc |-> "waitstop", active |-> active, questions |-> qs, responses |-> rs,
              blob |-> -1, afterStop |-> FALSE, videoUrl |-> Null]
  IN IF recorder.variant = "older" THEN OlderFinish(run, RecorderStop(recorder))
     ELSE IF active THEN run
     ELSE UploadAndComplete(run, recorder)

\* a run of a video variant moves on; a run that is done has called onComplete
VideoSettle(r, run) ==
  /\ videoRuns' = IF r \in DOMAIN videoRuns THEN [videoRuns EXCEPT ![r] = run]
                  ELSE Append(videoRuns, run)
  /\ IF run.pc = "done"
       THEN HandleInterviewComplete(schedules, run)
       ELSE UNCHANGED <<step, mounted, schedules, interviewData>>

\* "Finish" in a video variant: handleNext on the last question
handleNextRecorded ==
  /\ ShowsRoom
  /\ hasSpoken
  /\ ~isListening
  /\ currentQuestionIndex >= Len(questions) - 1
  /\ Len(videoRuns) < MaxRuns
  /\ StopListeningBody
  /\ hasSpoken' = FALSE
  /\ currentAnswer' = << >>
  /\ stopped' = TRUE
  /\ recorder' = RecorderStop(recorder)
  /\ LET run == StartVideoRun(questions, responses)
     IN /\ VideoSettle(Len(videoRuns) + 1, run)
        /\ streams' = IF run.pc = "waitstop" THEN streams ELSE StopTracks(streams)
  /\ UNCHANGED <<loadPending, isLoading, questions, currentQuestionIndex, isSpeaking,
                 videoEnabled, micEnabled, isRecording, isAnalyzing, analysis,
                 capturedPhotos, streamRef, mediaPending, nAcquire, utterances, hasSR,
                 recognitionRef, runs, serverVars>>

\* the recorder delivers the next queued event: the last data (pushed when
\* its size is positive), then stop, whose handler is the onstop the waiting
\* run installed
recorderEvent(size) ==
  /\ recorder.events # << >>
  /\ recorder' = [recorder EXCEPT !.events = Tail(@),
                     !.chunks = IF recorder.events[1] = "dataavailable" /\ size > 0
                                  THEN @ + 1 ELSE @]
  /\ IF recorder.events[1] = "stop" /\ \E r \in DOMAIN videoRuns : videoRuns[r].pc = "waitstop"
       THEN LET r == CHOOSE r \in DOMAIN videoRuns : videoRuns[r].pc = "waitstop"
            IN /\ VideoSettle(r, UploadAndComplete(videoRuns[r], recorder'))
               /\ streams' = StopTracks(streams)
       ELSE UNCHANGED <<videoRuns, step, mounted, schedules, interviewData, streams>>
  /\ UNCHANGED <<loadPending, roomVars, streamRef, mediaPending, nAcquire, speechVars,
                 runs, stopped, serverVars>>

\* what a settled await of a video run leads to
OnVideoGetUser(run, o) ==
  IF o = "user" THEN [Assemble(run, recorder) EXCEPT !.pc = "upload"]
  ELSE VideoComplete(run, Null)

OnVideoUpload(run, o) ==
  IF o # "ok" THEN VideoComplete(run, Null)
  ELSE IF recorder.variant = "older" THEN VideoComplete(run, 1)
  ELSE [run EXCEPT !.pc = "sign"]

OnVideoSignedUrl(run, o) ==
  IF o = "url" THEN VideoComplete(run, 1) ELSE VideoComplete(run, Null)

\* an awaited call of video run r settles
videoSettled(r, o) ==
  /\ r \in DOMAIN videoRuns
  /\ \/ videoRuns[r].pc = "auth" /\ o \in {"user", "none", "throw"}
        /\ VideoSettle(r, OnVideoGetUser(videoRuns[r], o))
     \/ videoRuns[r].pc = "upload" /\ o \in {"ok", "error", "throw"}
        /\ VideoSettle(r, OnVideoUpload(videoRuns[r], o))
     \/ videoRuns[r].pc = "sign" /\ o \in {"url", "error", "throw"}
        /\ VideoSettle(r, OnVideoSignedUrl(videoRuns[r], o))
  /\ UNCHANGED <<loadPending, roomVars, streamRef, streams, mediaPending, nAcquire,
                 speechVars, runs, stopped, serverVars, recorder>>

VideoStep ==
  \/ ondataavailable
  \/ handleNextRecorded
  \/ \E size \in {0, 1} : recorderEvent(size)
  \/ \E r \in 1..MaxRuns, o \in {"user", "none", "throw", "ok", "error", "url"} :
       videoSettled(r, o)

\* -------------------------------------------------------------------- Index
\* a category is chosen: the step becomes "interview" and a new
\* InterviewRoom is mounted, with the state of Init; what the browser holds
\* of an earlier room (streams, getUserMedia calls, the speech queue,
\* recognizers, runs of finishInterview still awaiting) stays
handleCategorySelect ==
  /\ step = "category"
  /\ step' = "interview"
  /\ interviewData' = [interviewData EXCEPT !.category = "c"]
  /\ mounted' = TRUE
  /\ loadPending' = TRUE
  /\ isLoading' = TRUE
  /\ questions' = << >>
  /\ currentQuestionIndex' = 0
  /\ responses' = << >>
  /\ isSpeaking' = FALSE
  /\ isListening' = FALSE
  /\ currentAnswer' = << >>
  /\ videoEnabled' = FALSE
  /\ micEnabled' = FALSE
  /\ isRecording' = FALSE
  /\ hasSpoken' = FALSE
  /\ capturedPhotos' = << >>
  /\ streamRef' = Null
  /\ recognitionRef' = Null
  /\ stopped' = FALSE
  /\ UNCHANGED <<isAnalyzing, analysis, streams, mediaPending, nAcquire, schedules,
                 utterances, hasSR, recognizers, runs, serverVars, recorderVars>>

\* "Start New Interview" on the results screen, which shows the button once
\* the analysis is there; ResultsScreen is unmounted, and the next one starts
\* from its initial state
handleRestart ==
  /\ step = "results"
  /\ ~isAnalyzing
  /\ analysis # NoAnalysis
  /\ step' = "category"
  /\ interviewData' = EmptyInterviewData
  /\ isAnalyzing' = TRUE
  /\ analysis' = NoAnalysis
  /\ UNCHANGED <<mounted, loadPending, isLoading, questions, currentQuestionIndex,
                 responses, isSpeaking, isListening, currentAnswer, videoEnabled,
                 micEnabled, isRecording, hasSpoken, capturedPhotos, mediaVars,
                 speechVars, runs, stopped, serverVars, recorderVars>>

MediaStep ==
  \/ startMedia
  \/ \E k \in 1..MaxAcquire : startMediaResolved(k)
  \/ \E k \in 1..MaxAcquire : startMediaRejected(k)
  \/ toggleVideo
  \/ toggleMic

CaptureStep ==
  \/ \E frame \in BOOLEAN : onCapturePhoto(frame)
  \/ \E s \in 1..MaxAcquire, frame \in BOOLEAN : autoCaptureTimer(s, frame)

SpeakStep ==
  \/ speakQuestion
  \/ utteranceOnstart
  \/ utteranceOnend
  \/ utteranceOnerror

ListenStep ==
  \/ startListening
  \/ \E r \in 1..MaxRecog : recognitionOnstart(r)
  \/ \E r \in 1..MaxRecog, ev \in ResultEvents : recognitionOnresult(r, ev)
  \/ \E r \in 1..MaxRecog : recognitionOnerror(r)
  \/ \E r \in 1..MaxRecog : recognitionOnend(r)
  \/ stopListening

FinishStep ==
  \/ \E r \in 1..MaxRuns, o \in {"user", "none", "throw"} : getUserSettled(r, o)
  \/ \E r \in 1..MaxRuns, o \in {"ok", "error", "throw"} : uploadSettled(r, o)
  \/ \E r \in 1..MaxRuns, o \in {"url", "none", "throw"} : signedUrlSettled(r, o)

PageStep ==
  \/ handleCategorySelect
  \/ handleRestart

\* The function alone: one request, of any shape, is received and served.
NextServer ==
  \/ \E req \in Requests : receive(req)
  \/ \E st \in {0, 200, 402, 429, 500} : serve(st)

Next ==
  \/ \E n \in -1..MaxQuestions : loadQuestions(n)
  \/ unmount
  \/ handleNext
  \/ MediaStep
  \/ CaptureStep
  \/ SpeakStep
  \/ ListenStep
  \/ FinishStep
  \/ \E r \in 1..MaxRuns, g \in AnalysisReplies : analyzeInterview(r, g)
  \/ NextServer
  \/ PageStep
  \/ VideoStep

Spec == Init /\ [][Next]_vars

\* The whole room is too large to enumerate at once, so the claims are
\* checked under specifications that each leave some events out; every
\* behaviour of such a specification is a behaviour of Spec.

\* The camera side: media, manual and timed captures, speaking, advancing.
\* The calls awaited by finishInterview stay pending.
NextCapture ==
  \/ \E n \in -1..MaxQuestions : loadQuestions(n)
  \/ unmount
  \/ handleNext
  \/ MediaStep
  \/ CaptureStep
  \/ SpeakStep

SpecCapture == Init /\ [][NextCapture]_vars

\* The start-up of the video-recording variant: the same room with a
\* MediaRecorder instead of the capture timers.
NextRecorded ==
  \/ \E n \in -1..MaxQuestions : loadQuestions(n)
  \/ unmount
  \/ startMedia
  \/ \E k \in 1..MaxAcquire, o \in {"started", "throws"} : startMediaRecorded(k, o)
  \/ \E k \in 1..MaxAcquire : startMediaRejected(k)
  \/ SpeakStep

SpecRecorded == Init /\ [][NextRecorded]_vars

\* The question service: the questions come from the server, whatever the
\* gateway answers; then speaking and advancing.
NextLoad ==
  \/ \E g \in GatewayReplies : generateQuestions(g)
  \/ unmount
  \/ handleNext
  \/ startMedia
  \/ \E k \in 1..MaxAcquire : startMediaResolved(k)
  \/ \E k \in 1..MaxAcquire : startMediaRejected(k)
  \/ SpeakStep

SpecLoad == Init /\ [][NextLoad]_vars

SpecServer == Init /\ [][NextServer]_vars

\* The results view: the interview is run without photos, then the analysis
\* request of ResultsScreen settles.
NextResults ==
  \/ \E n \in -1..MaxQuestions : loadQuestions(n)
  \/ handleNext
  \/ startMedia
  \/ \E k \in 1..MaxAcquire : startMediaResolved(k)
  \/ \E k \in 1..MaxAcquire : startMediaRejected(k)
  \/ SpeakStep
  \/ \E r \in 1..MaxRuns, g \in AnalysisReplies : analyzeInterview(r, g)

SpecResults == Init /\ [][NextResults]_vars

\* an HTTP request settles: with a reply, an error status or a network error
FairSpecResults == SpecResults /\ WF_vars(\E r \in 1..MaxRuns, g \in AnalysisReplies : analyzeInterview(r, g))

\* The speech side: the turn of every question and advancing; no photo is
\* taken, so finishInterview completes without awaiting anything.
NextSpeech ==
  \/ \E n \in -1..MaxQuestions : loadQuestions(n)
  \/ unmount
  \/ handleNext
  \/ startMedia
  \/ \E k \in 1..MaxAcquire : startMediaResolved(k)
  \/ \E k \in 1..MaxAcquire : startMediaRejected(k)
  \/ SpeakStep
  \/ ListenStep

SpecSpeech == Init /\ [][NextSpeech]_vars

\* The finishing pipeline from the mount on: photos are taken by hand only
\* (the session ends before the first timer is due).
NextPipeline ==
  \/ \E n \in -1..MaxQuestions : loadQuestions(n)
  \/ unmount
  \/ handleNext
  \/ startMedia
  \/ \E k \in 1..MaxAcquire : startMediaResolved(k)
  \/ \E k \in 1..MaxAcquire : startMediaRejected(k)
  \/ \E frame \in BOOLEAN : onCapturePhoto(frame)
  \/ SpeakStep
  \/ FinishStep

SpecPipeline == Init /\ [][NextPipeline]_vars

\* The finishing pipeline alone.  InitFinish is the room on its last
\* question (of none, or of MaxQuestions, every earlier one skipped without
\* an answer) with k photos taken by hand and the timers not yet due.
InitFinish ==
  /\ step = "interview"
  /\ mounted = TRUE
  /\ loadPending = FALSE
  /\ isLoading = FALSE
  /\ \E n \in {0, MaxQuestions} :
       /\ questions = LoadedQuestions(n)
       /\ responses = EmptyResponses(LoadedQuestions(n))
       /\ currentQuestionIndex = IF n = 0 THEN 0 ELSE n - 1
  /\ isSpeaking = FALSE
  /\ isListening = FALSE
  /\ currentAnswer = << >>
  /\ videoEnabled = TRUE
  /\ micEnabled = TRUE
  /\ isRecording = FALSE
  /\ isAnalyzing = TRUE
  /\ analysis = NoAnalysis
  /\ interviewData = [EmptyInterviewData EXCEPT !.category = "c"]
  /\ request = NoRequest
  /\ reply = NoReply
  /\ recorder = NoRecorder
  /\ videoRuns = << >>
  /\ hasSpoken = FALSE
  /\ \E k \in 0..MaxPhotos : capturedPhotos = [j \in 1..k |-> j]
  /\ streamRef = 1
  /\ streams = <<[live |-> TRUE, wired |-> FALSE]>>
  /\ mediaPending = << >>
  /\ nAcquire = 1
  /\ schedules = <<[seen |-> 0, left |-> TimersPerSchedule]>>
  /\ utterances = << >>
  /\ hasSR = "unknown"
  /\ recognitionRef = Null
  /\ recognizers = << >>
  /\ runs = << >>
  /\ stopped = FALSE

NextFinish ==
  \/ unmount
  \/ handleNext
  \/ SpeakStep
  \/ FinishStep

SpecFinish == InitFinish /\ [][NextFinish]_vars

\* A video-recording variant on its last question: the recorder is
\* recording, or none was constructed; no chunk has been delivered yet.
InitVideo ==
  /\ step = "interview"
  /\ mounted = TRUE
  /\ loadPending = FALSE
  /\ isLoading = FALSE
  /\ questions = LoadedQuestions(MaxQuestions)
  /\ responses = EmptyResponses(LoadedQuestions(MaxQuestions))
  /\ currentQuestionIndex = MaxQuestions - 1
  /\ isSpeaking = FALSE
  /\ isListening = FALSE
  /\ currentAnswer = << >>
  /\ videoEnabled = TRUE
  /\ micEnabled = TRUE
  /\ \E v \in {"onstop", "older"}, st \in {"recording", "none"} :
       /\ recorder = [variant |-> v, state |-> st, events |-> << >>, chunks |-> 0]
       /\ isRecording = (st = "recording")
  /\ videoRuns = << >>
  /\ isAnalyzing = TRUE
  /\ analysis = NoAnalysis
  /\ interviewData = [EmptyInterviewData EXCEPT !.category = "c"]
  /\ request = NoRequest
  /\ reply = NoReply
  /\ hasSpoken = FALSE
  /\ capturedPhotos = << >>
  /\ streamRef = 1
  /\ streams = <<[live |-> TRUE, wired |-> FALSE]>>
  /\ mediaPending = << >>
  /\ nAcquire = 1
  /\ schedules = << >>
  /\ utterances = << >>
  /\ hasSR = "unknown"
  /\ recognitionRef = Null
  /\ recognizers = << >>
  /\ runs = << >>
  /\ stopped = FALSE

NextVideo ==
  \/ SpeakStep
  \/ VideoStep

SpecVideo == InitVideo /\ [][NextVideo]_vars

\* Index before a category is chosen: no room is mounted
InitIndex ==
  /\ step = "category"
  /\ mounted = FALSE
  /\ loadPending = FALSE
  /\ isLoading = TRUE
  /\ questions = << >>
  /\ currentQuestionIndex = 0
  /\ responses = << >>
  /\ isSpeaking = FALSE
  /\ isListening = FALSE
  /\ currentAnswer = << >>
  /\ videoEnabled = FALSE
  /\ micEnabled = FALSE
  /\ isRecording = FALSE
  /\ isAnalyzing = TRUE
  /\ analysis = NoAnalysis
  /\ interviewData = EmptyInterviewData
  /\ request = NoRequest
  /\ reply = NoReply
  /\ recorder = NoRecorder
  /\ videoRuns = << >>
  /\ hasSpoken = FALSE
  /\ capturedPhotos = << >>
  /\ streamRef = Null
  /\ streams = << >>
  /\ mediaPending = << >>
  /\ nAcquire = 0
  /\ schedules = << >>
  /\ utterances = << >>
  /\ hasSR = "unknown"
  /\ recognitionRef = Null
  /\ recognizers = << >>
  /\ runs = << >>
  /\ stopped = FALSE

\* The page: a category is chosen and the questions load, or (InitFinish)
\* the room is on its last question; finishing, the analysis, restarting.
InitPage == InitIndex \/ InitFinish

NextPage ==
  \/ PageStep
  \/ \E n \in -1..MaxQuestions : loadQuestions(n)
  \/ handleNext
  \/ SpeakStep
  \/ FinishStep
  \/ \E r \in 1..MaxRuns, g \in AnalysisReplies : analyzeInterview(r, g)

SpecPage == InitPage /\ [][NextPage]_vars

\* every awaited call settles: with a value, an error or an exception
FairSpecFinish ==
  SpecFinish /\ WF_vars(FinishStep)

\* The error paths of a session nobody leaves: a failed question request,
\* denied media, a browser without speech recognition, failing synthesis,
\* and (from the states of InitFinish, which hold photos) failing auth,
\* upload and signed-URL calls.
InitErrors == Init \/ InitFinish

NextErrors ==
  \/ \E n \in -1..MaxQuestions : loadQuestions(n)
  \/ handleNext
  \/ startMedia
  \/ \E k \in 1..MaxAcquire : startMediaResolved(k)
  \/ \E k \in 1..MaxAcquire : startMediaRejected(k)
  \/ SpeakStep
  \/ startListening
  \/ FinishStep

SpecErrors == InitErrors /\ [][NextErrors]_vars

\* the user goes on pressing what the screen offers and every pending
\* request, utterance and awaited call is answered: a step is taken
\* whenever one is possible
FairSpecErrors == SpecErrors /\ WF_vars(NextErrors)

\* ------------------------------------------------------------------- claims

\* C1: capturedPhotos never holds more than 3 photos, whatever the order of
\* the timer callbacks and the manual captures.
C1_PhotoCap == Len(capturedPhotos) <= MaxPhotos

\* C2: in a session with at least one loaded question, the payload given to
\* onComplete holds one {question, answer} pair per question, in order, and
\* every answer is the one committed when that question's turn ended, the
\* last question's included.
C2_PayloadMatchesTurns ==
  \A r \in DOMAIN runs :
    (runs[r].pc = "done" /\ Len(runs[r].questions) > 0) =>
      /\ Len(runs[r].responses) = Len(runs[r].questions)
      /\ \A k \in DOMAIN runs[r].responses :
           /\ runs[r].responses[k].question = runs[r].questions[k]
           /\ runs[r].responses[k].answer = runs[r].committed[k].answer

\* C3: in a session whose questions were loaded, finishInterview runs at
\* most once and onComplete is called at most once.
C3_FinishOnce ==
  questions # << >> =>
    /\ Len(runs) <= 1
    /\ Cardinality({r \in DOMAIN runs : runs[r].pc = "done"}) <= 1

\* C4: once finishInterview has been entered (in a session whose questions
\* were loaded) no photo is appended to capturedPhotos any more.
C4_NoCaptureAfterFinish ==
  [][(Len(runs) > 0 /\ questions # << >>) => capturedPhotos' = capturedPhotos]_vars

\* C5: while the room is mounted and loadQuestions has finished, responses
\* is as long as questions.
C5_ResponsesMatchQuestions ==
  (mounted /\ ~loadPending) => Len(responses) = Len(questions)

\* C6: every invocation of finishInterview eventually calls onComplete,
\* whatever the awaited calls return or throw.
C6_EveryFinishCompletes ==
  \A r \in 1..MaxRuns : (Len(runs) >= r) ~> Done(r)

\* C6 witness: a run reached onComplete although one of its uploads or
\* signed-URL requests threw before the last photo.
C6_Witness ==
  \E r \in DOMAIN runs :
    /\ runs[r].pc = "done"
    /\ runs[r].auth = "user"
    /\ runs[r].i < Len(runs[r].photos)

\* C7: a run whose auth lookup reported no user has issued no upload (i = 0),
\* awaits no signed URL, and has called onComplete with videoUrl = null.
C7_NoUploadWithoutUser ==
  \A r \in DOMAIN runs :
    runs[r].auth = "none" =>
      /\ runs[r].pc = "done"
      /\ runs[r].i = 0
      /\ runs[r].photoUrls = << >>
      /\ runs[r].videoUrl = Null

\* C7 witness: the auth lookup of a run with photos reported no user.
C7_Witness ==
  \E r \in DOMAIN runs : runs[r].auth = "none" /\ Len(runs[r].photos) > 0

\* C8: a finished run of an authenticated user (over loaded questions) has
\* issued one upload for every captured photo, whatever happened to the
\* uploads before.
C8_EveryPhotoUploaded ==
  \A r \in DOMAIN runs :
    (runs[r].pc = "done" /\ runs[r].auth = "user" /\ runs[r].questions # << >>) =>
      runs[r].i = Len(runs[r].photos)

\* C9: when a run (over loaded questions) issues its first awaited call,
\* every media track is stopped and every capture timer is cleared.
C9_ReleasedBeforeFirstCall ==
  \A r \in DOMAIN runs :
    (runs[r].auth # "skipped" /\ runs[r].questions # << >>) => runs[r].released

\* C10: once stopListening has run for the current question (of a loaded
\* question list), a further stopListening with no startListening in between
\* (the only steps that write responses then) leaves the answer of that
\* question as it was.
C10_StopIdempotent ==
  [][(stopped /\ questions # << >>) => responses'[currentQuestionIndex + 1] = responses[currentQuestionIndex + 1]]_vars

\* C11: the answer of a loaded question, once it holds a committed
\* (non-empty) value, is never replaced by a different value; as every answer
\* starts empty, this says that an answer changes value at most once.
C11_AnswerWrittenOnce ==
  [][\A k \in 1..Len(questions) :
       (k \in DOMAIN responses /\ k \in DOMAIN responses' /\ responses[k].answer # << >>)
         => responses'[k].answer = responses[k].answer]_vars

\* C12: a step in which the question request fails leaves the session on
\* the Loading screen.
C12_FailedLoadStaysLoading ==
  [][(mounted /\ loadQuestions(-1)) => isLoading']_vars

\* C13: a generate_questions request whose gateway call fails (non-OK
\* status or network error) or whose reply does not parse ends with the
\* session holding the template questions.
C13_FailureGivesTemplate ==
  [][\A g \in GatewayReplies :
       (mounted /\ (g.status # 200 \/ g.content < 0) /\ generateQuestions(g))
         => questions' = TemplateQuestions]_vars

\* C14: once finishInterview has stopped the tracks (of a session with
\* loaded questions), toggleVideo and toggleMic leave videoEnabled and
\* micEnabled as they are.
C14_ToggleAfterTeardown ==
  [][(Len(runs) > 0 /\ questions # << >> /\ (toggleVideo \/ toggleMic))
       => (videoEnabled' = videoEnabled /\ micEnabled' = micEnabled)]_vars

\* C15: a toggle leaves the session on the interview screen, so that no
\* second acquisition can be requested from the pre-media screen.
C15_ToggleKeepsRoom ==
  [][(questions # << >> /\ (toggleVideo \/ toggleMic)) => ShowsRoom']_vars

\* C16: in a session with loaded questions, isSpeaking and isListening are
\* never both true.
C16_SpeakingXorListening ==
  questions # << >> => ~(isSpeaking /\ isListening)

\* C17: hasSpoken becomes true only by the end (or the failure) of an
\* utterance that speaks the current question.
C17_SpokenIsCurrentQuestion ==
  [][(questions # << >> /\ ~hasSpoken /\ hasSpoken')
       => (utterances # << >> /\ utterances[1].idx = currentQuestionIndex)]_vars

\* C18: currentQuestionIndex never decreases; it lies in
\* 0 .. Len(questions) - 1 whenever the session holds questions, and also
\* right after a reply of the server that loaded its question list.
C18_IndexInRange ==
  [][/\ currentQuestionIndex' >= currentQuestionIndex
     /\ questions' # << >> =>
          (0 <= currentQuestionIndex' /\ currentQuestionIndex' <= Len(questions') - 1)
     /\ \A g \in GatewayReplies :
          (mounted /\ g.status = 200 /\ generateQuestions(g)) =>
            (0 <= currentQuestionIndex' /\ currentQuestionIndex' <= Len(questions') - 1)]_vars

\* C19: a media start-up that fails (getUserMedia rejecting, or a later
\* step of startMedia throwing) when no earlier start-up has acquired a
\* stream leaves videoEnabled and micEnabled false, streamRef empty, nothing
\* recording and no capture timer armed.
C19_FailedStartLeavesNothing ==
  [][\A k \in 1..MaxAcquire :
       (mounted /\ streams = << >>
          /\ (startMediaRejected(k) \/ startMediaRecorded(k, "throws")))
       => /\ ~videoEnabled' /\ ~micEnabled' /\ ~isRecording'
          /\ streamRef' = Null
          /\ schedules' = << >>]_vars

\* every getUserMedia call the bound MaxAcquire allows was denied; the room
\* is on the pre-media screen, whose button stays usable in the program
AcquireExhausted ==
  nAcquire = MaxAcquire /\ mediaPending = << >> /\ streams = << >>

Lowest(S) == CHOOSE j \in S : \A k \in S : j <= k

\* C21: the videoUrl a run hands to onComplete is the signed URL of the
\* lowest-index photo whose upload and signed-URL request both succeeded,
\* and it is null exactly when no photo got that far
C21_FirstSignedUrl ==
  \A r \in DOMAIN runs :
    Done(r) => /\ (runs[r].videoUrl = Null) <=> (runs[r].signed = {})
               /\ runs[r].signed # {}
                    => runs[r].videoUrl = runs[r].photos[Lowest(runs[r].signed)]

C21_Witness ==
  \E r \in DOMAIN runs :
    /\ Done(r)
    /\ runs[r].signed = {2, 3}
    /\ runs[r].videoUrl = runs[r].photos[2]

\* C22: a run started with no captured photo completes at once with
\* videoUrl = null and has issued no auth lookup, upload or signed-URL request
C22_NoPhotoNoRequests ==
  \A r \in DOMAIN runs :
    Len(runs[r].photos) = 0
      => /\ runs[r].pc = "done"
         /\ runs[r].auth = "skipped"
         /\ runs[r].i = 0
         /\ runs[r].signed = {}
         /\ runs[r].videoUrl = Null

C22_Witness ==
  \E r \in DOMAIN runs :
    /\ Len(runs[r].photos) = 0
    /\ runs[r].pc = "done"
    /\ step = "results"

\* the analysis request carrying the responses of run r fails with reply g:
\* a network error, an error status, or a reply that cannot be parsed
AnalysisFails(r, g) ==
  \/ ServeAnalyzeResponses(g, runs[r].responses).status # 200
  \/ g.content = "garbage"

C24_OneSchedule ==
  questions # << >> => Len(schedules) * TimersPerSchedule <= MaxPhotos

\* C25: with loaded questions, the interview screen is never shown with a
\* live stream that was not attached to the preview element
C25_StreamWired ==
  (questions # << >> /\ ShowsRoom /\ streamRef # Null /\ streams[streamRef].live)
    => streams[streamRef].wired

\* C26: with loaded questions, the interview screen is shown only after a
\* stream was acquired, and auto-capture timers are armed only by the step
\* that enters the interview screen
C26_ArmedOnEntry ==
  [][questions # << >>
       => /\ ShowsRoom' => streams' # << >>
          /\ Len(schedules') > Len(schedules) => (~ShowsRoom /\ ShowsRoom')]_vars

\* C27: handleNext on a question that is not the last commits the current
\* answer into its response, clears hasSpoken and currentAnswer and
\* increases currentQuestionIndex by one; on the last question it keeps the
\* index and starts finishInterview
C27_HandleNext ==
  [][(questions # << >> /\ handleNext)
       => IF currentQuestionIndex < Len(questions) - 1
            THEN /\ responses'[currentQuestionIndex + 1].answer = currentAnswer
                 /\ ~hasSpoken'
                 /\ currentAnswer' = << >>
                 /\ currentQuestionIndex' = currentQuestionIndex + 1
                 /\ runs' = runs
            ELSE /\ currentQuestionIndex' = currentQuestionIndex
                 /\ Len(runs') = Len(runs) + 1]_vars

C27_Witness ==
  /\ questions # << >>
  /\ currentQuestionIndex = 1
  /\ ~hasSpoken
  /\ currentAnswer = << >>
  /\ responses[1].answer # << >>
  /\ runs = << >>

\* C28: with loaded questions, no result event of the listening session is
\* delivered after stopListening has committed that session's answer
C28_NoResultAfterCommit ==
  [][\A r \in 1..MaxRecog, ev \in ResultEvents :
       ~(questions # << >> /\ stopped /\ r = recognitionRef
           /\ recognitionOnresult(r, ev))]_vars

\* C29: when the synthesizer reports end or error for an utterance, the
\* utterance is over (its promise resolves), isSpeaking is false and
\* hasSpoken is true
C29_UtteranceSettles ==
  [][(mounted /\ (utteranceOnend \/ utteranceOnerror))
       => /\ ~isSpeaking'
          /\ hasSpoken'
          /\ utterances' = Tail(utterances)]_vars

C29_Witness ==
  /\ mounted
  /\ questions # << >>
  /\ hasSpoken
  /\ ~isSpeaking
  /\ Len(utterances) = 1
  /\ ~utterances[1].started

\* C30: without speech recognition startListening changes nothing of
\* isListening, the recognizers, currentAnswer and responses, and Next
\* stays available
C30_NoRecognitionNoChange ==
  [][(hasSR' = "no" /\ startListening)
       => /\ UNCHANGED <<isListening, recognizers, recognitionRef, currentAnswer, responses>>
          /\ ~isListening'
          /\ ShowsRoom' /\ hasSpoken']_vars

C30_Witness ==
  /\ hasSR = "no"
  /\ questions # << >>
  /\ ShowsRoom /\ hasSpoken /\ ~isListening
  /\ currentQuestionIndex = 1

\* C31: with loaded questions, while the recognizer of the current
\* listening session is running and the interface shows listening,
\* currentAnswer is the text that session has finalized followed by the
\* interim text of its latest result event, hence empty until the session
\* has delivered a result (every earlier recognizer having ended)
C31_AnswerIsSessionText ==
  (/\ questions # << >> /\ mounted /\ isListening
   /\ recognitionRef # Null
   /\ recognizers[recognitionRef].state = "running"
   /\ \A r \in DOMAIN recognizers : r # recognitionRef => recognizers[r].state = "ended")
    => currentAnswer = recognizers[recognitionRef].final \o recognizers[recognitionRef].interim

\* C32: every file a run uploads is stored under a path whose first segment
\* is the id of the user its auth lookup returned, and the paths of one run
\* are pairwise distinct
C32_PathsOwnedAndDistinct ==
  \A r \in DOMAIN runs :
    /\ Len(runs[r].paths) = runs[r].i
    /\ \A k \in DOMAIN runs[r].paths :
         /\ runs[r].auth = "user"
         /\ runs[r].paths[k][1] = runs[r].auth
    /\ \A j, k \in DOMAIN runs[r].paths : j # k => runs[r].paths[j] # runs[r].paths[k]

C32_Witness ==
  \E r \in DOMAIN runs :
    /\ Done(r)
    /\ Len(runs[r].paths) = MaxPhotos

\* C33: with loaded questions, a recognition result reaches the room only
\* from a recognizer created for the current question, and an utterance
\* that ends or fails was queued for the current question
C33_CallbacksOfCurrentQuestion ==
  [][(questions # << >> /\ mounted)
       => /\ \A r \in 1..MaxRecog, ev \in ResultEvents :
               recognitionOnresult(r, ev) => recognizers[r].idx = currentQuestionIndex
          /\ (utteranceOnend \/ utteranceOnerror)
               => utterances[1].idx = currentQuestionIndex]_vars

\* C34: with loaded questions, once the interview room has gone away no
\* acquired stream has a live track, and a stream that streamRef no longer
\* points to has been stopped
C34_StreamsStopped ==
  questions # << >> =>
    \A k \in DOMAIN streams :
      (~mounted \/ k # streamRef) => ~streams[k].live

\* C35: with loaded questions, at most one recognizer is starting or
\* running at any time
C35_OneRecognizer ==
  questions # << >> =>
    Cardinality({r \in DOMAIN recognizers :
                   recognizers[r].state \in {"starting", "running"}}) <= 1

\* C36: serve() asks the gateway only for a request with a token that
\* resolves to a user, one of the two actions, a valid category and, for
\* analyze_responses, a non-empty responses array; the first check that
\* fails, in that order, decides the status: 401, 400, 400, 400
C36_GatewayAfterChecks ==
  reply # NoReply =>
    LET authOk == request.auth = "user"
        actionOk == request.action \in {"generate_questions", "analyze_responses"}
        categoryOk == request.category = "ok"
        responsesOk == request.action = "analyze_responses" => request.responses = "ok"
        served == request.body = "json" /\ request.key
    IN /\ reply.gateway => (authOk /\ actionOk /\ categoryOk /\ responsesOk)
       /\ ~authOk => reply.status = 401
       /\ (served /\ authOk /\ ~actionOk) => reply.status = 400
       /\ (served /\ authOk /\ actionOk /\ ~categoryOk) => reply.status = 400
       /\ (served /\ authOk /\ actionOk /\ categoryOk /\ ~responsesOk) => reply.status = 400
       /\ reply.status \in {401, 400} => ~reply.gateway

C36_Witness ==
  /\ reply.gateway
  /\ reply.status = 200
  /\ request.action = "analyze_responses"

\* C37: the step of the page moves only from category to interview, from
\* interview to results and from results to category; the step that enters
\* results is the onComplete of a run and leaves that run's questions,
\* responses and videoUrl in interviewData; handleRestart leaves
\* interviewData empty
C37_StepCycle ==
  [][/\ step' # step
        => <<step, step'>> \in {<<"category", "interview">>, <<"interview", "results">>,
                                <<"results", "category">>}
     /\ (step' = "results" /\ step # "results")
        => \E r \in DOMAIN runs' :
             /\ runs'[r].pc = "done"
             /\ r \in DOMAIN runs => runs[r].pc # "done"
             /\ interviewData'.questions = runs'[r].questions
             /\ interviewData'.responses = runs'[r].responses
             /\ interviewData'.videoUrl = runs'[r].videoUrl
     /\ handleRestart => interviewData' = EmptyInterviewData]_vars

\* C38: in a video-recording variant, a run that found the recorder active
\* assembles its recording only after the recorder's last data and stop
\* event were delivered, and a run that has called onComplete has done so
\* with the URL of an assembled recording or with null
C38_AssembledAfterStop ==
  \A r \in DOMAIN videoRuns :
    /\ (videoRuns[r].active /\ videoRuns[r].blob >= 0) => videoRuns[r].afterStop
    /\ (videoRuns[r].pc = "done" /\ videoRuns[r].videoUrl # Null) => videoRuns[r].blob > 0
====
